---- MODULE Spec2Model ----
(***************************************************************************)
(* Model of the synchronisation code of spotify-videoclips:                *)
(*   - the legacy entry point main.py (recursive "wait for the next song"), *)
(*   - the command line program spotify_videos/__main__.py                 *)
(*     (wait_for_connection and the play_videos_* loops),                  *)
(*   - the Qt program spotivids/gui/window.py (MainWindow) with the        *)
(*     players spotivids/player/vlc.py and spotivids/player/mpv.py.        *)
(* The variable app tells which of the three programs a behaviour runs.    *)
(***************************************************************************)
EXTENDS Integers, Sequences, FiniteSets, TLC

\* ------------------------------------------------------------------ bounds
\* connect calls that may fail with an error other than ConnectionNotReady
MaxFatal == 1
\* signals, poll ticks, loop iterations and observations after a bootstrap
\* of at most one connect call
MaxEvents == 3
\* the same after a bootstrap of several connect calls
MaxLateEvents == 1
\* calls made on a player that is driven alone
MaxOps == 4
\* players constructed from one Config
MaxPlayers == 3

\* ------------------------------------------------------- program constants
attempts == 30
conn_attempts == 120

\* ------------------------------------------------------------ input values
\* Optional values: None is the empty tuple, a present value a 1-tuple.
None == <<>>
Some(x) == <<x>>

\* Tracks the source may report: (artist, title), artist optional.
Tracks ==
  { [artist |-> Some("A"), title |-> "B"],
    [artist |-> Some("A"), title |-> "C"],
    [artist |-> Some(""),  title |-> "A - B"],
    [artist |-> None,      title |-> "C"] }

\* Tracks the APIs of the command line and Qt programs report.
SourceTracks ==
  { [artist |-> Some("A"), title |-> "B"],
    [artist |-> Some("A"), title |-> "C"] }

\* Positions (milliseconds) an API may report or signal.
PosValues == {-500, 2000}
\* Positions (milliseconds) at which a playing video is first seen.
Offsets == {250}
\* time that passes between start_time and the moment the video is seen to
\* play, in microseconds
ElapsedMicros == {250400}
\* time main.py spends on the cache lookup or the download, in microseconds
LegacyElapsedMicros == {250400, 1250400}

Apps == {"legacy", "cli", "gui"}
PlayerKinds == {"vlc", "mpv"}
\* "mpv": spotivids.player.mpv.MpvPlayer, "vidify": vidify.player.mpv.MpvPlayer
MpvKinds == {"mpv", "vidify"}
\* positions asked of a player that is driven alone, and the time one
\* stretch of playback adds, in milliseconds
SeekValues == {1234, 2000}
Advances == {40}
ApiKinds == {"linux", "swspotify", "web"}
ConnectOutcomes == {"ok", "notready", "fatal"}

\* ------------------------------------------------------------- format_name
format_nameNoneOnly(artist, title) ==
  IF artist = None THEN title
  ELSE artist[1] \o " - " \o title

format_name(artist, title) ==
  IF artist \in {None, Some("")} THEN title
  ELSE artist[1] \o " - " \o title

\* get_url: the search the resolver is asked for; the URL it gives back is
\* identified with the search string.
get_url(artist, title) ==
  "ytsearch:'" \o format_name(artist, title) \o " Official Video'"

\* ------------------------------------------------------------------ players
\* One record for both players: media (None or the URL), vstate (libvlc
\* state of VLCPlayer._player), pause / seekable (mpv properties),
\* time (position in milliseconds).
NewPlayer(kind) ==
  [kind |-> kind, media |-> None, vstate |-> "nothing",
   pause |-> FALSE, seekable |-> FALSE, time |-> 0]

\* Results of a player operation: the new state and the native calls made.
Res(st, native) == [st |-> st, native |-> native]

\* VLCPlayer.pause (getter): not self._player.is_playing()
VLCPauseGet(p) == p.vstate # "playing"

\* self._player.pause(): libvlc toggles pause, no effect without an input
VlcNativePause(p) ==
  IF p.vstate = "playing" THEN [p EXCEPT !.vstate = "paused"]
  ELSE IF p.vstate = "paused" THEN [p EXCEPT !.vstate = "playing"]
  ELSE p

\* self._player.play()
VlcNativePlay(p) ==
  IF p.media = None THEN p ELSE [p EXCEPT !.vstate = "playing"]

\* VLCPlayer.pause (setter)
VLCPauseSet(p, do_pause) ==
  LET is_paused == VLCPauseGet(p) IN
  IF do_pause /\ ~is_paused THEN Res(VlcNativePause(p), <<"pause">>)
  ELSE IF ~do_pause /\ is_paused THEN Res(VlcNativePlay(p), <<"play">>)
  ELSE Res(p, <<>>)

\* VLCPlayer.start_video: set_media stops the running input ("VLC starts
\* paused"), then the pause setter is used when is_playing.
VLCStartVideo(p, media, is_playing) ==
  LET q == [p EXCEPT !.media = Some(media), !.vstate = "nothing", !.time = 0]
  IN IF is_playing
     THEN LET r == VLCPauseSet(q, FALSE)
          IN Res(r.st, <<"set_media">> \o r.native)
     ELSE Res(q, <<"set_media">>)

\* VLCPlayer.position (setter): self._player.set_time(ms)
VLCPositionSetPlays(p, ms) ==
  Res(VlcNativePlay([p EXCEPT !.time = ms]), <<"set_time", "play">>)

VLCPositionSet(p, ms) == Res([p EXCEPT !.time = ms], <<"set_time">>)

\* MpvPlayer.pause (getter)
MpvPauseGet(p) == p.pause

\* MpvPlayer.pause (setter): the property is written on every call
MpvPauseSet(p, do_pause) ==
  Res([p EXCEPT !.pause = do_pause], <<"set_pause">>)

\* MpvPlayer.start_video: mpv keeps its pause property across files
MpvStartVideo(p, url, is_playing) ==
  LET q == [p EXCEPT !.media = Some(url), !.seekable = FALSE, !.time = 0]
  IN IF ~is_playing
     THEN LET r == MpvPauseSet(q, TRUE)
          IN Res(r.st, <<"play">> \o r.native)
     ELSE Res(q, <<"play">>)

\* MpvPlayer.position (setter), the part after wait_for_property('seekable')
MpvSeek(p, ms) == Res([p EXCEPT !.time = ms], <<"seek">>)

\* Numbers that need not be whole: n / d
Rat(n, d) == [n |-> n, d |-> d]

RatEq(a, b) == a.n * b.d = b.n * a.d

\* mpv's playback_time property: seconds, not available before the file is
\* loaded (the record keeps it in milliseconds)
MpvPlaybackTime(p) ==
  IF p.media = None \/ ~p.seekable THEN None ELSE Some(Rat(p.time, 1000))

\* spotivids MpvPlayer.position (getter): playback_time, or 0
MpvPositionGet(p) ==
  LET time == MpvPlaybackTime(p)
  IN IF time # None THEN time[1] ELSE Rat(0, 1)

\* vidify MpvPlayer.position (getter): round(time * 1000), or 0
VidifyPositionGet(p) ==
  LET time == MpvPlaybackTime(p)
  IN IF time # None THEN Rat((time[1].n * 1000) \div time[1].d, 1)
     ELSE Rat(0, 1)

\* round(ms / 1000, 2), given back in milliseconds: the nearest multiple of
\* 10, a tie going to the even hundredth
RoundCentis(ms) ==
  LET q == ms \div 10
      r == ms % 10
  IN IF r < 5 THEN 10 * q
     ELSE IF r > 5 THEN 10 * (q + 1)
     ELSE IF q % 2 = 0 THEN 10 * q ELSE 10 * (q + 1)

\* vidify MpvPlayer.seek (absolute), the part after wait_for_property
VidifySeek(p, ms) == Res([p EXCEPT !.time = RoundCentis(ms)], <<"seek">>)

\* Dispatch on the player in use.
PlayerPause(p) == IF p.kind = "vlc" THEN VLCPauseGet(p) ELSE MpvPauseGet(p)

PauseSet(p, do_pause) ==
  IF p.kind = "vlc" THEN VLCPauseSet(p, do_pause) ELSE MpvPauseSet(p, do_pause)

StartVideo(p, url, is_playing) ==
  IF p.kind = "vlc" THEN VLCStartVideo(p, url, is_playing)
  ELSE MpvStartVideo(p, url, is_playing)

\* player.position (getter)
PlayerPosition(p) ==
  IF p.kind = "vlc" THEN Rat(p.time, 1)
  ELSE IF p.kind = "vidify" THEN VidifyPositionGet(p)
  ELSE MpvPositionGet(p)

\* A position write returns at once for VLC and for a seekable mpv; for an
\* mpv that is not seekable it blocks in wait_for_property.
SeekNeverBlocks(p) == FALSE

SeekBlocks(p) == p.kind \in MpvKinds /\ ~p.seekable

PositionSet(p, ms) ==
  IF p.kind = "vlc" THEN VLCPositionSet(p, ms)
  ELSE IF p.kind = "vidify" THEN VidifySeek(p, ms)
  ELSE MpvSeek(p, ms)

\* ---------------------------------------------------------- API capabilities
\* Sources that answer position queries (the Web API); the others raise
\* NotImplementedError.
SupportsPosition(api) == api = "web"

\* Values api.position may return: none when the query raises.
ApiPositions(api) == IF SupportsPosition(api) THEN PosValues ELSE {0}

\* event_loop_interval of the API: None for the push source (DBus), a
\* poll interval for the others.
EventLoopInterval(api) == IF api = "linux" THEN None ELSE Some(1000)

\* Events still explored after the bootstrap recorded in hist.
EventBudget(hist) ==
  IF hist.connectCalls <= 1 THEN MaxEvents ELSE MaxLateEvents

\* -------------------------------------------------------------------- state
VARIABLES
  app,            \* which program runs: "legacy", "cli" or "gui"
  apiKind,        \* the API in use
  player,         \* the player (VLCPlayer or MpvPlayer)
  pc,             \* position of the program / of the Qt main thread
  pending,        \* a position write blocked in wait_for_property
  counter,        \* wait_for_connection: counter (cli)
  ret,            \* wait_for_connection: returned value (cli)
  conn_counter,   \* MainWindow.conn_counter
  conn_timer,     \* MainWindow.conn_timer: "active", "stopped", "deleted"
  conn_label,     \* "hidden", "shown", "deleted"
  loading_label,  \* "shown", "hidden", "deleted"
  signals,        \* times the API signals were connected to the slots
  loopTimers,     \* poll timers started by start_event_loop
  waitingMsg,     \* times the waiting message was surfaced
  timedOut,       \* times the timeout message was printed
  exitCode,       \* QCoreApplication.exit(code): None or Some(code)
  errors,         \* exceptions that left a slot or ended the program
  name,           \* main.py: name of the song being played
  args,           \* main.py: (artist, title) of the running main call
  videos,         \* main.py: the dictionary videos, name -> filename
  depth,          \* main.py: unfinished invocations of main
  config,         \* vidify: the Config given to MpvPlayer
  flags,          \* vidify: the flags the last MPV(*flags, **args) was given
  players,        \* vidify: MpvPlayer objects constructed
  status,         \* MPRIS: the argument of _bool_status
  bool_ret,       \* MPRIS: what _bool_status returned, None before the call
  build,          \* build.py: the source tree and the state of copytree
  h               \* history of calls, for the properties only

vars == <<app, apiKind, player, pc, pending, counter, ret, conn_counter,
          conn_timer, conn_label, loading_label, signals, loopTimers,
          waitingMsg, timedOut, exitCode, errors, name, args, videos,
          depth, config, flags, players, status, bool_ret, build, h>>

cliVars == <<counter, ret>>
guiVars == <<conn_counter, conn_timer, conn_label, loading_label, signals,
             loopTimers, exitCode>>
legacyVars == <<name, args, videos, depth>>
unitVars == <<config, flags, players, status, bool_ret, build>>
fixedVars == <<app, apiKind, unitVars>>

InitHistory ==
  [connectCalls |-> 0, fatalCalls |-> 0, firstOutcome |-> "none",
   allNotReady |-> TRUE, connected |-> FALSE, successRuns |-> 0,
   lateConnects |-> 0, cancelled |-> FALSE, resolverCalls |-> 0,
   resolverFails |-> 0, startCalls |-> 0, handlerRuns |-> 0,
   pollTicks |-> 0, events |-> 0, lastStart |-> None, lastStatus |-> None,
   trackChanges |-> 0, lastObs |-> None, downloads |-> 0,
   callsAtCancel |-> 0, calledAfterFatal |-> FALSE, lastPlay |-> None,
   lastWrite |-> None, ops |-> 0, requests |-> 0, seeks |-> 0,
   lastSeek |-> None, settled |-> None, lastRead |-> None,
   named |-> None, downloadLog |-> <<>>, legacyPlay |-> None,
   configBefore |-> None]

\* The parts used by the vidify constructor and by _bool_status, unused
NoConfig == [mpv_properties |-> <<>>, debug |-> FALSE, by_reference |-> FALSE]

NoBuild == [tree |-> <<>>, todo |-> <<>>, copied |-> {}, call |-> None]

UnitsUnused ==
  /\ build = NoBuild
  /\ config = NoConfig
  /\ flags = <<>>
  /\ players = 0
  /\ status = <<>>
  /\ bool_ret = None

Init ==
  /\ app \in Apps
  /\ apiKind \in ApiKinds
  /\ app = "legacy" => apiKind = "linux"
  /\ \E k \in PlayerKinds :
        /\ app = "legacy" => k = "vlc"
        /\ player = NewPlayer(k)
  /\ pc = CASE app = "cli" -> "wfc_loop"
            [] app = "gui" -> "idle"
            [] OTHER -> "main_entry"
  /\ pending = None
  /\ counter = 0
  /\ ret = "None"
  /\ conn_counter = 0
  /\ conn_timer = IF app = "gui" THEN "active" ELSE "stopped"
  /\ conn_label = "hidden"
  /\ loading_label = "shown"
  /\ signals = 0
  /\ loopTimers = 0
  /\ waitingMsg = 0
  /\ timedOut = 0
  /\ exitCode = None
  /\ errors = {}
  /\ name = ""
  /\ args \in IF app = "legacy" THEN {Some(t) : t \in Tracks} ELSE {None}
  /\ videos = <<>>
  /\ depth = IF app = "legacy" THEN 1 ELSE 0
  /\ UnitsUnused
  /\ h = InitHistory

\* History of one connect call with the given outcome.
Connected(hist, outcome) ==
  [hist EXCEPT
     !.connectCalls = @ + 1,
     !.fatalCalls = IF outcome = "fatal" THEN @ + 1 ELSE @,
     !.firstOutcome = IF @ = "none" THEN outcome ELSE @,
     !.allNotReady = @ /\ outcome = "notready",
     !.calledAfterFatal = @ \/ hist.fatalCalls > 0,
     !.lateConnects = IF hist.connected \/ timedOut > 0 THEN @ + 1 ELSE @,
     !.connected = @ \/ outcome = "ok"]

\* ------------------------------------- spotify_videos: wait_for_connection
\* while counter < attempts
LoopCondOffByOne(c) == c <= attempts

LoopCond(c) == c < attempts

\* if counter == 0: print(msg)
PrintsMsgAlways(c) == TRUE

PrintsMsg(c) == c = 0

\* except KeyboardInterrupt: break -- the else clause of the loop is skipped
InterruptedPcContinue == "wfc_loop"

InterruptedPc == "returned"

\* return False at the end of the function, reached by break ...
InterruptedReturn == "False"

\* ... and after the else clause of the loop
TimedOutReturn == "False"

\* if not wait_for_connection(...): return
AfterWaitAlways(r) == "play_top"

AfterWait(r) == IF r = "True" THEN "play_top" ELSE "returned"

\* One pass of the loop body: connect() and the handling of its outcome.
WfcConnect(outcome) ==
  /\ app = "cli" /\ pc = "wfc_loop"
  /\ LoopCond(counter)
  /\ outcome = "fatal" => h.fatalCalls < MaxFatal
  /\ h' = Connected(h, outcome)
  /\ CASE outcome = "ok" ->
            /\ ret' = "True"
            /\ pc' = AfterWait("True")
            /\ UNCHANGED <<counter, waitingMsg, errors>>
       [] outcome = "notready" ->
            /\ waitingMsg' = IF PrintsMsg(counter) THEN waitingMsg + 1
                              ELSE waitingMsg
            /\ counter' = counter + 1
            /\ pc' = "wfc_sleep"
            /\ UNCHANGED <<ret, errors>>
       [] OTHER ->
            /\ errors' = errors \cup {"Fatal"}
            /\ pc' = "crashed"
            /\ UNCHANGED <<counter, ret, waitingMsg>>
  /\ UNCHANGED <<fixedVars, player, pending, guiVars, timedOut, legacyVars>>

\* time.sleep(1) returns
WfcSleepDone ==
  /\ app = "cli" /\ pc = "wfc_sleep"
  /\ pc' = "wfc_loop"
  /\ UNCHANGED <<fixedVars, player, pending, cliVars, guiVars, waitingMsg,
                 timedOut, errors, legacyVars, h>>

\* KeyboardInterrupt during time.sleep(1): break, then return False
WfcKeyboardInterrupt ==
  /\ app = "cli" /\ pc = "wfc_sleep"
  /\ pc' = InterruptedPc
  /\ ret' = IF pc' = "returned" THEN InterruptedReturn ELSE ret
  /\ h' = [h EXCEPT !.cancelled = TRUE, !.callsAtCancel = h.connectCalls]
  /\ UNCHANGED <<fixedVars, player, pending, counter, guiVars, waitingMsg,
                 timedOut, errors, legacyVars>>

\* The loop condition is false: else clause, print("Timed out"), return False
WfcTimedOut ==
  /\ app = "cli" /\ pc = "wfc_loop"
  /\ ~LoopCond(counter)
  /\ timedOut' = timedOut + 1
  /\ ret' = TimedOutReturn
  /\ pc' = AfterWait(TimedOutReturn)
  /\ UNCHANGED <<fixedVars, player, pending, counter, guiVars, waitingMsg,
                 errors, legacyVars, h>>

\* --------------------------------------------------- MainWindow: bootstrap
\* if self.conn_counter == 1: the loading label is replaced by the
\* connection label
ShowsConnLabel(c) == c = 1

\* if self.conn_counter >= self.conn_attempts
AttemptsReachedLate(c) == c > conn_attempts

AttemptsReached(c) == c >= conn_attempts

\* self.conn_timer.stop() and del self.conn_timer in the success branch
TimerAfterSuccessRunning == "active"

TimerAfterSuccess == "deleted"

LabelStep(deleted) ==
  /\ waitingMsg' = IF ShowsConnLabel(conn_counter) /\ conn_label = "hidden"
                    THEN waitingMsg + 1 ELSE waitingMsg
  /\ loading_label' = IF deleted THEN "deleted"
                       ELSE IF ShowsConnLabel(conn_counter) THEN "hidden"
                       ELSE loading_label
  /\ conn_label' = IF deleted THEN "deleted"
                    ELSE IF ShowsConnLabel(conn_counter) THEN "shown"
                    ELSE conn_label

\* The end of wait_for_connection: the counter and the timeout test.
\* After the success branch self.conn_timer was deleted, and
\* self.conn_timer.stop() raises AttributeError before exit(1) is reached.
CountStep(timer) ==
  /\ conn_counter' = conn_counter + 1
  /\ IF AttemptsReached(conn_counter + 1)
     THEN /\ timedOut' = timedOut + 1
          /\ IF timer = "deleted"
             THEN /\ errors' = errors \cup {"AttributeError"}
                  /\ conn_timer' = timer
                  /\ exitCode' = exitCode
                  /\ pc' = "idle"
             ELSE /\ errors' = errors
                  /\ conn_timer' = "stopped"
                  /\ exitCode' = Some(1)
                  /\ pc' = "exited"
     ELSE /\ timedOut' = timedOut
          /\ errors' = errors
          /\ conn_timer' = timer
          /\ exitCode' = exitCode
          /\ pc' = "idle"

\* The success branch after play_video has returned: the signals are
\* connected and the event loop is started when an interval was given.
HandOverAlwaysTimer ==
  /\ signals' = signals + 1
  /\ loopTimers' = loopTimers + 1

HandOver ==
  /\ signals' = signals + 1
  /\ loopTimers' = IF EventLoopInterval(apiKind) # None THEN loopTimers + 1
                    ELSE loopTimers

\* play_video reads api.position: the value, or nothing when the API raises
\* NotImplementedError.
PositionRead(ms) == IF SupportsPosition(apiKind) THEN Some(ms) ELSE None

\* play_video, try/except around the position write: the value written is
\* the one read, or 0 in the except branch.
PositionTargetZero(read) == Some(0)

PositionTargetNoExcept(read) == read

PositionTarget(read) == IF read # None THEN read ELSE Some(0)

\* int((time.time() - start_time) * 1000): the offset in milliseconds of an
\* elapsed time given in microseconds.
OffsetMs(us) == us \div 1000

\* play_video: the resolver, start_video and the position write.
\* rok: the resolver returns a URL; ms: the value of api.position.
PlayVideo(p, t, is_playing, rok, ms) ==
  IF ~rok
  THEN [exc |-> "ResolveError", raised |-> TRUE, started |-> FALSE,
        st |-> p, blocked |-> FALSE, wrote |-> FALSE, ms |-> 0,
        paused |-> PlayerPause(p), trace |-> <<"get_url">>,
        read |-> None, target |-> None]
  ELSE LET s == StartVideo(p, get_url(t.artist, t.title), is_playing).st
           read == PositionRead(ms)
           target == PositionTarget(read)
       IN IF target = None
          THEN \* NotImplementedError leaves play_video
               [exc |-> "NotImplementedError", raised |-> TRUE,
                started |-> TRUE, st |-> s, blocked |-> FALSE,
                wrote |-> FALSE, ms |-> 0, paused |-> PlayerPause(s),
                trace |-> <<"get_url", "start_video", "api.position">>,
                read |-> read, target |-> None]
          ELSE [exc |-> "none", raised |-> FALSE, started |-> TRUE,
                st |-> IF SeekBlocks(s) THEN s
                       ELSE PositionSet(s, target[1]).st,
                blocked |-> SeekBlocks(s), wrote |-> ~SeekBlocks(s),
                ms |-> target[1], paused |-> PlayerPause(s),
                trace |-> <<"get_url", "start_video", "api.position",
                            "player.position">>,
                read |-> read, target |-> target]

\* History of one run of the code that plays a track.  d: the time that
\* really passed since the track change, when known.
Played(hist, r, is_playing, d) ==
  [hist EXCEPT
     !.resolverCalls = @ + 1,
     !.resolverFails = IF r.exc = "ResolveError" THEN @ + 1 ELSE @,
     !.startCalls = IF r.started THEN @ + 1 ELSE @,
     !.lastStart = IF r.started
                   THEN Some([is_playing |-> is_playing, pause |-> r.paused])
                   ELSE @,
     !.lastPlay = IF r.started
                  THEN Some([is_playing |-> is_playing, trace |-> r.trace,
                             read |-> r.read, elapsed |-> d,
                             writes |-> IF r.wrote THEN 1 ELSE 0,
                             written |-> IF r.wrote THEN r.target ELSE None])
                  ELSE @,
     !.lastWrite = IF r.wrote THEN r.target ELSE @]

\* History of a position write that reaches the player.  ofPlay: the write
\* is the one of the code that plays a track.
Wrote(hist, ms, ofPlay) ==
  [hist EXCEPT
     !.lastWrite = Some(ms),
     !.lastPlay = IF ofPlay /\ @ # None
                  THEN Some([@[1] EXCEPT !.writes = @ + 1,
                                         !.written = Some(ms)])
                  ELSE @]

TimerTick ==
  /\ app = "gui" /\ pc = "idle" /\ conn_timer = "active"

\* wait_for_connection, connect raises ConnectionNotReady
WaitNotReady ==
  /\ TimerTick
  /\ LabelStep(FALSE)
  /\ h' = Connected(h, "notready")
  /\ CountStep(conn_timer)
  /\ UNCHANGED <<fixedVars, player, pending, cliVars, signals, loopTimers,
                 legacyVars>>

\* wait_for_connection, connect raises another error: it leaves the slot
WaitFatal ==
  /\ TimerTick
  /\ h.fatalCalls < MaxFatal
  /\ LabelStep(FALSE)
  /\ h' = Connected(h, "fatal")
  /\ errors' = errors \cup {"Fatal"}
  /\ UNCHANGED <<fixedVars, player, pc, pending, cliVars, conn_counter,
                 conn_timer, signals, loopTimers, timedOut, exitCode,
                 legacyVars>>

\* wait_for_connection, connect succeeds: the timer is stopped, the labels
\* are removed and the first video is played.
WaitConnected ==
  /\ TimerTick
  /\ \E t \in SourceTracks, b \in BOOLEAN, rok \in BOOLEAN,
        ms \in ApiPositions(apiKind), d \in ElapsedMicros :
       LET r == PlayVideo(player, t, b, rok, ms)
           hc == [Connected(h, "ok") EXCEPT !.successRuns = @ + 1]
       IN /\ LabelStep(TRUE)
          /\ h' = Played(hc, r, b, Some(d))
          /\ player' = r.st
          /\ IF r.raised
             THEN \* the exception leaves wait_for_connection
                  /\ errors' = errors \cup {r.exc}
                  /\ conn_timer' = TimerAfterSuccess
                  /\ UNCHANGED <<pc, pending, conn_counter, signals,
                                 loopTimers, timedOut, exitCode>>
             ELSE IF r.blocked
             THEN /\ pc' = "seek_wait"
                  /\ pending' = Some([ms |-> r.ms, cont |-> "wfc",
                                      ofPlay |-> TRUE])
                  /\ conn_timer' = TimerAfterSuccess
                  /\ UNCHANGED <<conn_counter, signals, loopTimers,
                                 timedOut, exitCode, errors>>
             ELSE /\ HandOver
                  /\ CountStep(TimerAfterSuccess)
                  /\ UNCHANGED pending
  /\ UNCHANGED <<fixedVars, cliVars, legacyVars>>

\* mpv has loaded the file: 'seekable' becomes true (mpv's own thread)
MpvBecomesSeekable ==
  /\ player.kind \in MpvKinds /\ player.media # None /\ ~player.seekable
  /\ pc \in {"idle", "seek_wait", "wait_pos", "spotify_wait"}
  /\ player' = [player EXCEPT !.seekable = TRUE]
  /\ UNCHANGED <<fixedVars, pc, pending, cliVars, guiVars, waitingMsg,
                 timedOut, errors, legacyVars, h>>

\* The video is being played: the player's position leaves 0 (the position
\* is read by play_videos_linux only)
VideoProgress ==
  /\ app = "cli"
  /\ player.media # None /\ player.time = 0
  /\ IF player.kind = "vlc" THEN player.vstate = "playing"
     ELSE player.seekable /\ ~player.pause
  /\ pc \in {"wait_pos", "spotify_wait"}
  /\ \E ms \in Offsets : player' = [player EXCEPT !.time = ms]
  /\ UNCHANGED <<fixedVars, pc, pending, cliVars, guiVars, waitingMsg,
                 timedOut, errors, legacyVars, h>>

\* wait_for_property('seekable') returns in a position write of the Qt
\* program: the seek is made and the interrupted caller goes on.
GuiSeekDone ==
  /\ app = "gui" /\ pc = "seek_wait" /\ player.seekable
  /\ player' = MpvSeek(player, pending[1].ms).st
  /\ pending' = None
  /\ IF pending[1].cont = "wfc"
     THEN /\ HandOver
          /\ CountStep(conn_timer)
     ELSE /\ pc' = "idle"
          /\ UNCHANGED <<conn_counter, conn_timer, signals, loopTimers,
                         timedOut, exitCode, errors>>
  /\ h' = Wrote(h, pending[1].ms, pending[1].ofPlay)
  /\ UNCHANGED <<fixedVars, cliVars, conn_label, loading_label, waitingMsg,
                 legacyVars>>

\* A signal of the API reaches its slot: the slots are connected, the main
\* thread is in the event loop, and for a polled API the poll timer runs.
SignalEmittedWhileWaiting ==
  /\ app = "gui" /\ pc \in {"idle", "seek_wait"} /\ signals > 0
  /\ EventLoopInterval(apiKind) # None => loopTimers > 0
  /\ h.events < EventBudget(h)

SignalEmitted ==
  /\ app = "gui" /\ pc = "idle" /\ signals > 0
  /\ EventLoopInterval(apiKind) # None => loopTimers > 0
  /\ h.events < EventBudget(h)

\* Slot play_video (new_song_signal)
PlayVideoSlot ==
  /\ SignalEmitted
  /\ \E t \in SourceTracks, b \in BOOLEAN, rok \in BOOLEAN,
        ms \in ApiPositions(apiKind), d \in ElapsedMicros :
       LET r == PlayVideo(player, t, b, rok, ms)
           he == [h EXCEPT !.events = @ + 1, !.handlerRuns = @ + 1]
       IN /\ h' = Played(he, r, b, Some(d))
          /\ player' = r.st
          /\ errors' = IF r.raised THEN errors \cup {r.exc} ELSE errors
          /\ pc' = IF r.blocked THEN "seek_wait" ELSE "idle"
          /\ pending' = IF r.blocked
                         THEN Some([ms |-> r.ms, cont |-> "slot",
                                    ofPlay |-> TRUE])
                         ELSE pending
  /\ UNCHANGED <<fixedVars, cliVars, guiVars, waitingMsg, timedOut,
                 legacyVars>>

\* Slot change_video_status (status_signal)
ChangeVideoStatus ==
  /\ SignalEmitted
  /\ \E is_playing \in BOOLEAN :
       LET r == PauseSet(player, ~is_playing)
       IN /\ player' = r.st
          /\ h' = [h EXCEPT
                     !.events = @ + 1, !.handlerRuns = @ + 1,
                     !.lastStatus =
                        Some([is_playing |-> is_playing,
                              already |-> PlayerPause(player) = ~is_playing,
                              native |-> Len(r.native),
                              pause |-> PlayerPause(r.st)])]
  /\ UNCHANGED <<fixedVars, pc, pending, cliVars, guiVars, waitingMsg,
                 timedOut, errors, legacyVars>>

\* Slot change_video_position (position_signal)
ChangeVideoPosition ==
  /\ SignalEmitted
  /\ \E ms \in PosValues :
       LET he == [h EXCEPT !.events = @ + 1, !.handlerRuns = @ + 1]
       IN IF SeekBlocks(player)
          THEN /\ pc' = "seek_wait"
               /\ pending' = Some([ms |-> ms, cont |-> "slot",
                                   ofPlay |-> FALSE])
               /\ player' = player
               /\ h' = he
          ELSE /\ player' = PositionSet(player, ms).st
               /\ h' = Wrote(he, ms, FALSE)
               /\ UNCHANGED <<pc, pending>>
  /\ UNCHANGED <<fixedVars, cliVars, guiVars, waitingMsg, timedOut, errors,
                 legacyVars>>

\* A tick of the poll timer in which the API finds no change
PollTick ==
  /\ app = "gui" /\ pc = "idle" /\ loopTimers > 0
  /\ h.events < EventBudget(h)
  /\ h' = [h EXCEPT !.events = @ + 1, !.pollTicks = @ + 1]
  /\ UNCHANGED <<fixedVars, player, pc, pending, cliVars, guiVars,
                 waitingMsg, timedOut, errors, legacyVars>>

\* ------------------------------------------ spotify_videos: play_videos_*
\* One pass of the loop of play_videos_linux / _swspotify / _web up to the
\* first point where it waits.  rok: get_url returns; b: spotify.is_playing;
\* ms: spotify.position.
PlayIteration ==
  /\ app = "cli" /\ pc = "play_top"
  /\ h.events < EventBudget(h)
  /\ \E t \in SourceTracks, b \in BOOLEAN, rok \in BOOLEAN,
        ms \in ApiPositions(apiKind) :
       LET is_playing == IF apiKind = "swspotify" THEN TRUE ELSE b
           s == StartVideo(player, get_url(t.artist, t.title), is_playing).st
           writes == rok /\ apiKind = "web"
           r == [exc |-> IF rok THEN "none" ELSE "ResolveError",
                 started |-> rok, paused |-> PlayerPause(s),
                 wrote |-> writes /\ ~SeekBlocks(s),
                 trace |-> IF writes
                           THEN <<"get_url", "start_video", "api.position",
                                  "player.position">>
                           ELSE <<"get_url", "start_video">>,
                 read |-> IF writes THEN Some(ms) ELSE None,
                 target |-> IF writes THEN Some(ms) ELSE None]
           he == [h EXCEPT !.events = @ + 1]
       IN /\ h' = Played(he, r, is_playing, None)
          /\ IF ~rok
             THEN \* get_url raises: nothing catches it
                  /\ errors' = errors \cup {"ResolveError"}
                  /\ pc' = "crashed"
                  /\ UNCHANGED <<player, pending>>
             ELSE /\ errors' = errors
                  /\ CASE apiKind = "linux" ->
                            /\ player' = s
                            /\ pc' = IF is_playing THEN "wait_pos"
                                      ELSE "spotify_wait"
                            /\ UNCHANGED pending
                       [] apiKind = "swspotify" ->
                            /\ player' = s
                            /\ pc' = "spotify_wait"
                            /\ UNCHANGED pending
                       [] OTHER ->
                            IF SeekBlocks(s)
                            THEN /\ player' = s
                                 /\ pc' = "seek_wait"
                                 /\ pending' = Some([ms |-> ms,
                                                     cont |-> "cli",
                                                     ofPlay |-> TRUE])
                            ELSE /\ player' = PositionSet(s, ms).st
                                 /\ pc' = "spotify_wait"
                                 /\ UNCHANGED pending
  /\ UNCHANGED <<fixedVars, cliVars, guiVars, waitingMsg, timedOut,
                 legacyVars>>

\* play_videos_linux: `while player.position == 0` ends, the offset is
\* measured and written to the player.
WaitPosExit ==
  /\ app = "cli" /\ pc = "wait_pos"
  /\ ~RatEq(PlayerPosition(player), Rat(0, 1))
  /\ \E d \in ElapsedMicros :
       LET offset == OffsetMs(d)
           he == [h EXCEPT !.lastPlay = Some([@[1] EXCEPT
                                                !.elapsed = Some(d)])]
       IN IF SeekBlocks(player)
          THEN /\ pc' = "seek_wait"
               /\ pending' = Some([ms |-> offset, cont |-> "cli",
                                   ofPlay |-> TRUE])
               /\ player' = player
               /\ h' = he
          ELSE /\ player' = PositionSet(player, offset).st
               /\ h' = Wrote(he, offset, TRUE)
               /\ pc' = "spotify_wait"
               /\ UNCHANGED pending
  /\ UNCHANGED <<fixedVars, cliVars, guiVars, waitingMsg, timedOut, errors,
                 legacyVars>>

\* wait_for_property('seekable') returns in a position write of the
\* command line program.
CliSeekDone ==
  /\ app = "cli" /\ pc = "seek_wait" /\ player.seekable
  /\ player' = MpvSeek(player, pending[1].ms).st
  /\ pending' = None
  /\ pc' = "spotify_wait"
  /\ h' = Wrote(h, pending[1].ms, pending[1].ofPlay)
  /\ UNCHANGED <<fixedVars, cliVars, guiVars, waitingMsg, timedOut, errors,
                 legacyVars>>

\* spotify.wait() returns: the song has changed
SpotifyWaitReturns ==
  /\ app = "cli" /\ pc = "spotify_wait"
  /\ pc' = "play_top"
  /\ UNCHANGED <<fixedVars, player, pending, cliVars, guiVars, waitingMsg,
                 timedOut, errors, legacyVars, h>>

\* ------------------------------------------------------------------ main.py
\* `name not in videos`
InCacheNever(n, v) == FALSE

InCache(n, v) == n \in DOMAIN v

\* youtube.download_video(name): the file of the k-th download
download_video(n, k) == [of |-> n, download |-> k]

\* int((datetime.now() - start_time).microseconds / 1000): microseconds is
\* the part of the difference below one second.
LegacyOffset(us) == (us % 1000000) \div 1000

\* main(artist, title) up to its wait loop: the video is downloaded when
\* its name is not in videos, and played.  d: the time the lookup or the
\* download takes.
LegacyMain ==
  /\ app = "legacy" /\ pc = "main_entry"
  /\ \E d \in LegacyElapsedMicros :
       LET n == format_name(args[1].artist, args[1].title)
           cached == InCache(n, videos)
           filename == IF cached THEN videos[n]
                       ELSE download_video(n, h.downloads + 1)
       IN /\ name' = n
          /\ videos' = IF cached THEN videos ELSE (n :> filename) @@ videos
          /\ h' = [h EXCEPT
                     !.downloads = IF cached THEN @ ELSE @ + 1,
                     !.downloadLog = IF cached THEN @
                                     ELSE Append(@, [name |-> n,
                                                     filename |-> filename]),
                     !.startCalls = @ + 1,
                     !.lastObs = IF @ = None THEN args ELSE @,
                     !.named = args,
                     !.legacyPlay = Some([name |-> n, filename |-> filename,
                                          offset |-> LegacyOffset(d),
                                          elapsed |-> d, cached |-> cached])]
  /\ pc' = "waiting"
  /\ UNCHANGED <<fixedVars, player, pending, cliVars, guiVars, waitingMsg,
                 timedOut, errors, args, depth>>

\* One pass of the wait loop: get_name, format_name and the comparison
\* with name; on a different name main calls itself.
LegacyObserve ==
  /\ app = "legacy" /\ pc = "waiting"
  /\ h.events < EventBudget(h)
  /\ \E t \in Tracks :
       LET new_name == format_name(t.artist, t.title)
           changed == Some(t) # h.lastObs
       IN /\ args' = Some(t)
          /\ h' = [h EXCEPT
                     !.events = IF changed THEN @ + 1 ELSE @,
                     !.trackChanges = IF changed THEN @ + 1 ELSE @,
                     !.lastObs = Some(t)]
          /\ IF new_name # name
             THEN /\ depth' = depth + 1
                  /\ pc' = "main_entry"
             ELSE UNCHANGED <<depth, pc>>
  /\ UNCHANGED <<fixedVars, player, pending, cliVars, guiVars, waitingMsg,
                 timedOut, errors, name, videos>>

\* --------------------------------------------------------------------- Next
Next ==
  \/ \E outcome \in ConnectOutcomes : WfcConnect(outcome)
  \/ WfcSleepDone
  \/ WfcKeyboardInterrupt
  \/ WfcTimedOut
  \/ PlayIteration
  \/ WaitPosExit
  \/ CliSeekDone
  \/ SpotifyWaitReturns
  \/ WaitNotReady
  \/ WaitFatal
  \/ WaitConnected
  \/ GuiSeekDone
  \/ PlayVideoSlot
  \/ ChangeVideoStatus
  \/ ChangeVideoPosition
  \/ PollTick
  \/ MpvBecomesSeekable
  \/ VideoProgress
  \/ LegacyMain
  \/ LegacyObserve

Spec == Init /\ [][Next]_vars

\* ------------------------------------------------- an MpvPlayer driven alone
\* The calls of the Player interface made one after the other by a single
\* caller on an MpvPlayer of spotivids or of vidify, with mpv loading and
\* playing the file on its own thread.
InitPlayer ==
  /\ app = "player"
  /\ apiKind = "linux"
  /\ \E k \in MpvKinds : player = NewPlayer(k)
  /\ pc = "idle"
  /\ pending = None
  /\ counter = 0
  /\ ret = "None"
  /\ conn_counter = 0
  /\ conn_timer = "stopped"
  /\ conn_label = "hidden"
  /\ loading_label = "shown"
  /\ signals = 0
  /\ loopTimers = 0
  /\ waitingMsg = 0
  /\ timedOut = 0
  /\ exitCode = None
  /\ errors = {}
  /\ name = ""
  /\ args = None
  /\ videos = <<>>
  /\ depth = 0
  /\ UnitsUnused
  /\ h = InitHistory

CallerReady == app = "player" /\ pc = "idle" /\ h.ops < MaxOps

\* History of a native seek: what was asked, what mpv was given (in
\* milliseconds), whether mpv was seekable, whether the call had to wait.
Sought(hist, p, ms, st, held) ==
  [hist EXCEPT
     !.seeks = @ + 1,
     !.lastSeek = Some([requested |-> ms, applied |-> st.time,
                        seekable |-> p.seekable, held |-> held]),
     !.settled = IF p.pause /\ p.seekable THEN Some(ms) ELSE None]

\* start_video(url, is_playing)
CallStartVideo ==
  /\ CallerReady
  /\ \E t \in SourceTracks, is_playing \in BOOLEAN :
       player' = StartVideo(player, get_url(t.artist, t.title), is_playing).st
  /\ h' = [h EXCEPT !.ops = @ + 1, !.settled = None]
  /\ UNCHANGED <<fixedVars, pc, pending, cliVars, guiVars, waitingMsg,
                 timedOut, errors, legacyVars>>

\* pause = do_pause
CallPauseSet ==
  /\ CallerReady
  /\ \E do_pause \in BOOLEAN :
       /\ player' = PauseSet(player, do_pause).st
       /\ h' = [h EXCEPT !.ops = @ + 1,
                         !.settled = IF do_pause THEN @ ELSE None]
  /\ UNCHANGED <<fixedVars, pc, pending, cliVars, guiVars, waitingMsg,
                 timedOut, errors, legacyVars>>

\* position = ms (spotivids) / seek(ms) (vidify): the caller waits in
\* wait_for_property('seekable') or the seek is made at once.
CallPositionSet ==
  /\ CallerReady
  /\ \E ms \in SeekValues :
       LET hr == [h EXCEPT !.ops = @ + 1, !.requests = @ + 1]
       IN IF SeekBlocks(player)
          THEN /\ pc' = "seek_wait"
               /\ pending' = Some([ms |-> ms, cont |-> "caller",
                                   ofPlay |-> FALSE])
               /\ player' = player
               /\ h' = hr
          ELSE /\ player' = PositionSet(player, ms).st
               /\ h' = Sought(hr, player, ms, PositionSet(player, ms).st,
                              FALSE)
               /\ UNCHANGED <<pc, pending>>
  /\ UNCHANGED <<fixedVars, cliVars, guiVars, waitingMsg, timedOut, errors,
                 legacyVars>>

\* wait_for_property('seekable') returns and the seek is made
CallSeekDone ==
  /\ app = "player" /\ pc = "seek_wait" /\ player.seekable
  /\ player' = PositionSet(player, pending[1].ms).st
  /\ h' = Sought(h, player, pending[1].ms,
                 PositionSet(player, pending[1].ms).st, TRUE)
  /\ pending' = None
  /\ pc' = "idle"
  /\ UNCHANGED <<fixedVars, cliVars, guiVars, waitingMsg, timedOut, errors,
                 legacyVars>>

\* position is read
CallPositionGet ==
  /\ CallerReady
  /\ h' = [h EXCEPT
             !.ops = @ + 1,
             !.lastRead = Some([value |-> PlayerPosition(player),
                                playback_time |-> MpvPlaybackTime(player),
                                settled |-> h.settled])]
  /\ UNCHANGED <<fixedVars, player, pc, pending, cliVars, guiVars,
                 waitingMsg, timedOut, errors, legacyVars>>

\* mpv plays the loaded file: the playback time advances
PlaybackAdvances ==
  /\ app = "player" /\ h.ops < MaxOps
  /\ player.media # None /\ player.seekable /\ ~player.pause
  /\ \E ms \in Advances : player' = [player EXCEPT !.time = @ + ms]
  /\ h' = [h EXCEPT !.ops = @ + 1, !.settled = None]
  /\ UNCHANGED <<fixedVars, pc, pending, cliVars, guiVars, waitingMsg,
                 timedOut, errors, legacyVars>>

NextPlayer ==
  \/ CallStartVideo
  \/ CallPauseSet
  \/ CallPositionSet
  \/ CallSeekDone
  \/ CallPositionGet
  \/ PlaybackAdvances
  \/ MpvBecomesSeekable

SpecPlayer == InitPlayer /\ [][NextPlayer]_vars

\* ------------------------------------------- vidify: MpvPlayer.__init__
\* Everything but the parts of one unit at rest, for the program a.
AtRest(a) ==
  /\ app = a
  /\ apiKind = "linux"
  /\ player = NewPlayer("vidify")
  /\ pc = "idle"
  /\ pending = None
  /\ counter = 0
  /\ ret = "None"
  /\ conn_counter = 0
  /\ conn_timer = "stopped"
  /\ conn_label = "hidden"
  /\ loading_label = "shown"
  /\ signals = 0
  /\ loopTimers = 0
  /\ waitingMsg = 0
  /\ timedOut = 0
  /\ exitCode = None
  /\ errors = {}
  /\ name = ""
  /\ args = None
  /\ videos = <<>>
  /\ depth = 0

\* MpvPlayer.DEFAULT_FLAGS
DEFAULT_FLAGS == <<"mute">>

\* Lists config.mpv_properties may hold
UserFlags == {"no-osc", "hwdec=auto"}

FlagLists ==
  {<<>>} \cup {<<a>> : a \in UserFlags}
         \cup {<<a, b>> : a \in UserFlags, b \in UserFlags}

\* config.mpv_properties: the list the attribute gives, and whether it is
\* the list object the Config holds or a new list with the same elements
mpv_properties(cfg) == cfg.mpv_properties

GivesOwnList(cfg) == cfg.by_reference

InitConfig ==
  /\ AtRest("vidify_init")
  /\ config \in [mpv_properties : FlagLists, debug : BOOLEAN,
                  by_reference : BOOLEAN]
  /\ flags = <<>>
  /\ players = 0
  /\ status = <<>>
  /\ bool_ret = None
  /\ build = NoBuild
  /\ h = [InitHistory EXCEPT !.configBefore = Some(config.mpv_properties)]

\* MpvPlayer.__init__: flags = config.mpv_properties;
\* flags.extend(self.DEFAULT_FLAGS); MPV(*flags, **args)
MpvPlayerInit ==
  /\ app = "vidify_init" /\ players < MaxPlayers
  /\ LET extended == mpv_properties(config) \o DEFAULT_FLAGS
     IN /\ flags' = extended
        /\ config' = IF GivesOwnList(config)
                      THEN [config EXCEPT !.mpv_properties = extended]
                      ELSE config
  /\ players' = players + 1
  /\ UNCHANGED <<app, apiKind, status, bool_ret, build, player, pc, pending,
                 cliVars, guiVars, waitingMsg, timedOut, errors, legacyVars,
                 h>>

NextConfig == MpvPlayerInit

SpecConfig == InitConfig /\ [][NextConfig]_vars

\* ------------------------------------------------ MPRISAPI._bool_status
\* A string is a sequence of characters; the letters of the statuses:
LowerLetters ==
  <<"a", "d", "e", "g", "i", "l", "n", "o", "p", "s", "t", "u", "y">>

UpperLetters ==
  <<"A", "D", "E", "G", "I", "L", "N", "O", "P", "S", "T", "U", "Y">>

ToLower(c) ==
  IF \E i \in 1..Len(UpperLetters) : UpperLetters[i] = c
  THEN LowerLetters[CHOOSE i \in 1..Len(UpperLetters) : UpperLetters[i] = c]
  ELSE c

ToUpper(c) ==
  IF \E i \in 1..Len(LowerLetters) : LowerLetters[i] = c
  THEN UpperLetters[CHOOSE i \in 1..Len(LowerLetters) : LowerLetters[i] = c]
  ELSE c

\* str.lower()
lower(str) == [i \in 1..Len(str) |-> ToLower(str[i])]

Playing == <<"p", "l", "a", "y", "i", "n", "g">>
Paused == <<"p", "a", "u", "s", "e", "d">>
Stopped == <<"s", "t", "o", "p", "p", "e", "d">>

\* Every capitalisation of a word
Capitalisations(word) ==
  { [i \in 1..Len(word) |-> IF i \in S THEN ToUpper(word[i]) ELSE word[i]] :
      S \in SUBSET (1..Len(word)) }

\* The strings test_bool_status passes, with what it asserts
test_bool_status ==
  { [status |-> Stopped, expected |-> FALSE],
    [status |-> <<"s", "T", "o", "P", "P", "e", "D">>, expected |-> FALSE],
    [status |-> Paused, expected |-> FALSE],
    [status |-> <<"p", "a", "U", "s", "E", "d">>, expected |-> FALSE],
    [status |-> Playing, expected |-> TRUE],
    [status |-> <<"P", "l", "a", "y", "i", "n", "g">>, expected |-> TRUE] }

\* MPRISAPI._bool_status(status)
bool_statusListed(str) ==
  str \in {Playing, <<"P", "l", "a", "y", "i", "n", "g">>}

bool_status(str) == lower(str) = Playing

InitStatus ==
  /\ AtRest("mpris")
  /\ config = NoConfig
  /\ flags = <<>>
  /\ players = 0
  /\ status \in Capitalisations(Playing) \cup Capitalisations(Paused)
                \cup Capitalisations(Stopped)
  /\ bool_ret = None
  /\ build = NoBuild
  /\ h = InitHistory

CallBoolStatus ==
  /\ app = "mpris" /\ bool_ret = None
  /\ bool_ret' = Some(bool_status(status))
  /\ UNCHANGED <<app, apiKind, config, flags, players, status, build, player, pc,
                 pending, cliVars, guiVars, waitingMsg, timedOut, errors,
                 legacyVars, h>>

NextStatus == CallBoolStatus

SpecStatus == InitStatus /\ [][NextStatus]_vars

\* ------------------------------------------------------------- build.py
\* IGNORED_FILES
IGNORED_FILES == <<".git", ".venv", "target">>

\* What the top directory and ./src may hold, in the order os.listdir gives
TopNames == <<".git", ".venv", "target", "src", "build.py", "README.md">>
SrcNames == <<"target", "vidify">>
Directories == {".git", ".venv", "target", "src", "vidify"}

\* The elements of q whose position is in S, in the order of q
SubSeq2(q, S) ==
  LET F[i \in 0..Len(q)] ==
        IF i = 0 THEN <<>>
        ELSE IF i \in S THEN Append(F[i - 1], q[i]) ELSE F[i - 1]
  IN F[Len(q)]

Elems(q) == {q[i] : i \in 1..Len(q)}

\* os.path.join(path, filename) for a relative filename and a path without
\* a trailing separator
path_join(path, filename) ==
  IF path = "" THEN filename ELSE path \o "/" \o filename

\* get_ignored(path, filenames)
get_ignored(path, filenames) ==
  LET Ignored(filename) ==
        path_join(path, filename) \in Elems(IGNORED_FILES)
  IN SelectSeq(filenames, Ignored)

\* os.listdir(path) in the tree
listdir(path) ==
  IF path \in DOMAIN build.tree THEN build.tree[path] ELSE <<>>

InitBuild ==
  /\ AtRest("build")
  /\ config = NoConfig
  /\ flags = <<>>
  /\ players = 0
  /\ status = <<>>
  /\ bool_ret = None
  /\ \E S \in SUBSET (1..Len(TopNames)), T \in SUBSET (1..Len(SrcNames)) :
       /\ ("src" \notin Elems(SubSeq2(TopNames, S)) => T = {})
       /\ build = [tree |-> ("." :> SubSeq2(TopNames, S))
                            @@ ("./src" :> SubSeq2(SrcNames, T)),
                   todo |-> <<".">>, copied |-> {}, call |-> None]
  /\ h = InitHistory

\* shutil.copytree('.', 'build', ignore=get_ignored), one directory: the
\* names ignore(src, names) gives are skipped, the others are copied and
\* the directories among them are visited in turn.
CopyTreeDirectory ==
  /\ app = "build" /\ build.todo # <<>>
  /\ LET src == Head(build.todo)
         names == listdir(src)
         ignored_names == get_ignored(src, names)
         Kept(n) == n \notin Elems(ignored_names)
         kept == SelectSeq(names, Kept)
         IsDir(n) == n \in Directories
         subdirs == SelectSeq(kept, IsDir)
     IN build' = [build EXCEPT
                    !.todo = [i \in 1..Len(subdirs) |->
                                path_join(src, subdirs[i])] \o Tail(@),
                    !.copied = @ \cup {path_join(src, n) : n \in Elems(kept)},
                    !.call = Some([path |-> src, filenames |-> names,
                                   ret |-> ignored_names])]
  /\ UNCHANGED <<app, apiKind, config, flags, players, status, bool_ret,
                 player, pc, pending, cliVars, guiVars, waitingMsg, timedOut,
                 errors, legacyVars, h>>

NextBuild == CopyTreeDirectory

SpecBuild == InitBuild /\ [][NextBuild]_vars

\* ------------------------------------------------ progress of the programs
\* main.py alone.  Python goes on from the end of the wait loop to the call
\* of main; what spotify.get_name() returns is up to the source.
InitLegacy == Init /\ app = "legacy"

NextLegacy == LegacyMain \/ LegacyObserve

SpecLegacyFair ==
  InitLegacy /\ [][NextLegacy]_vars /\ WF_vars(LegacyMain)

\* spotify_videos alone.  The program goes on whenever it can: the wait
\* loop ends once the position is not 0 and the seek is made once mpv is
\* seekable; whether the player ever shows the video is up to the player.
InitCli == Init /\ app = "cli"

NextCli ==
  \/ \E outcome \in ConnectOutcomes : WfcConnect(outcome)
  \/ WfcSleepDone
  \/ WfcKeyboardInterrupt
  \/ WfcTimedOut
  \/ PlayIteration
  \/ WaitPosExit
  \/ CliSeekDone
  \/ SpotifyWaitReturns
  \/ MpvBecomesSeekable
  \/ VideoProgress

SpecCliFair ==
  InitCli /\ [][NextCli]_vars /\ WF_vars(WaitPosExit) /\ WF_vars(CliSeekDone)

\* ------------------------------------------------------------------- claims
MaxAttempts == IF app = "cli" THEN attempts ELSE conn_attempts

Bootstrapping == app \in {"cli", "gui"}

\* C1: when every connect call raises ConnectionNotReady, exactly
\* maxAttempts connect calls are made (30 in wait_for_connection, 120 in
\* MainWindow) and then the timeout is reported: 'Timed out' and False, or
\* 'Timed out waiting for Spotify', the timer stopped and exit(1).
C1_TimeoutAfterMaxAttempts ==
  (Bootstrapping /\ h.allNotReady) =>
    /\ h.connectCalls <= MaxAttempts
    /\ timedOut <= 1
    /\ timedOut = 1 => h.connectCalls = MaxAttempts
    /\ (app = "gui" /\ h.connectCalls = MaxAttempts) =>
         (timedOut = 1 /\ conn_timer = "stopped" /\ exitCode = Some(1))
    /\ (app = "cli" /\ pc = "returned" /\ ~h.cancelled) =>
         (timedOut = 1 /\ ret = "False" /\ h.connectCalls = MaxAttempts)
    /\ (app = "cli" /\ h.connectCalls = MaxAttempts) =>
         pc \in {"wfc_sleep", "wfc_loop", "returned"}

C1_Witness ==
  /\ app = "gui" /\ h.allNotReady /\ h.connectCalls = conn_attempts
  /\ timedOut = 1 /\ exitCode = Some(1)

\* C2 (as claimed): when connect succeeds on attempt k <= maxAttempts,
\* k = maxAttempts included, no timeout is reported and the application
\* is not exited.
C2_NoTimeoutWhenConnected ==
  (Bootstrapping /\ h.connected) => (timedOut = 0 /\ exitCode = None)

\* C3 (as claimed): the player is started exactly once for each change of
\* the observed track (and once for the first track), never for an
\* observation identical to the stored one.
C3_OneStartPerChange ==
  (app = "legacy" /\ pc = "waiting") => h.startCalls = h.trackChanges + 1

\* C4 (as claimed): after a failed resolution the engine keeps running, so
\* that a later track change is still detected: the program has not ended
\* and, in the Qt program, the signals are connected to their slots.
C4_EngineSurvivesResolverFailure ==
  (h.resolverFails > 0 /\ pc # "seek_wait") =>
    (pc # "crashed" /\ (app = "gui" => signals > 0))

\* C5 (as claimed): when start_video(url, is_playing) returns, the
\* player's pause state is not is_playing.
C5_PauseAfterStart ==
  h.lastStart # None => h.lastStart[1].pause = ~h.lastStart[1].is_playing

\* C6 (as claimed): change_video_status(is_playing) leaves the pause state
\* at not is_playing and makes no native call when the player was
\* already in that state.
C6_StatusIdempotent ==
  h.lastStatus # None =>
    /\ h.lastStatus[1].pause = ~h.lastStatus[1].is_playing
    /\ h.lastStatus[1].already => h.lastStatus[1].native = 0

\* C7: no resolver call, start_video call, slot run or poll tick happens
\* (and no signal is connected or poll timer started) unless a connect
\* call has succeeded; after a bootstrap without success none happens.
C7_NothingBeforeConnect ==
  (Bootstrapping /\ ~h.connected) =>
    /\ h.resolverCalls = 0 /\ h.startCalls = 0
    /\ h.handlerRuns = 0 /\ h.pollTicks = 0
    /\ signals = 0 /\ loopTimers = 0
    /\ player = NewPlayer(player.kind)

C7_Witness ==
  /\ ~h.connected /\ timedOut = 1 /\ pc \in {"returned", "exited"}

\* C8: once bootstrap is CONNECTED or TIMED_OUT no connect call is made
\* again, the success branch runs at most once and the signals are
\* connected at most once.
C8_BootstrapTerminal ==
  Bootstrapping =>
    /\ h.lateConnects = 0
    /\ h.successRuns <= 1
    /\ signals <= 1 /\ loopTimers <= 1
    /\ (h.connected /\ app = "gui") => conn_timer # "active"

C8_Witness ==
  /\ app = "gui" /\ h.connected /\ signals = 1 /\ h.events > 0
  /\ h.connectCalls > 1

\* C9: the waiting message is surfaced at most once: once after a first
\* attempt that raised ConnectionNotReady (when printed by the loop, or at
\* the next tick of the timer), never after a first attempt that
\* succeeded, and not again after later failures.
C9_WaitingMessageOnce ==
  Bootstrapping =>
    /\ waitingMsg <= 1
    /\ h.firstOutcome = "ok" => waitingMsg = 0
    /\ (app = "cli" /\ h.firstOutcome = "notready") => waitingMsg = 1
    /\ (app = "gui" /\ h.firstOutcome = "notready" /\ h.connectCalls >= 2)
         => waitingMsg = 1
    /\ h.connectCalls = 0 => waitingMsg = 0

C9_Witness ==
  /\ app = "cli" /\ h.firstOutcome = "notready" /\ h.connectCalls > 2
  /\ waitingMsg = 1

C11_FatalAborts ==
  (Bootstrapping /\ h.fatalCalls > 0) => ~h.calledAfterFatal

\* C12: a poll timer is started only for an API with an event-loop
\* interval and only by a successful connection, at most one exists, a
\* push source never gets one (and never a poll tick), and the slots are
\* connected once, so that a change reaches play_video by one way only.
C12_OneObservationMode ==
  app = "gui" =>
    /\ loopTimers <= 1
    /\ EventLoopInterval(apiKind) = None =>
         (loopTimers = 0 /\ h.pollTicks = 0)
    /\ loopTimers = 1 =>
         (EventLoopInterval(apiKind) # None /\ h.connected /\ signals = 1)
    /\ (signals = 1 /\ EventLoopInterval(apiKind) # None) => loopTimers = 1

C12_Witness ==
  /\ app = "gui" /\ EventLoopInterval(apiKind) = None
  /\ signals = 1 /\ h.handlerRuns > 0 /\ loopTimers = 0

IndexOf(q, x) ==
  IF \E i \in 1..Len(q) : q[i] = x
  THEN CHOOSE i \in 1..Len(q) : q[i] = x /\ \A j \in 1..(i - 1) : q[j] # x
  ELSE 0

Count(q, x) == Cardinality({i \in 1..Len(q) : q[i] = x})

\* C13: when the source supports position queries, a track start is
\* followed by exactly one read of the source's position, made after
\* start_video, and the player's position is set to exactly the value read:
\* it has been written once, or the write is held until mpv is seekable
\* with that value.
C13_PositionReadOnceAndSet ==
  (Bootstrapping /\ SupportsPosition(apiKind) /\ h.lastPlay # None) =>
    LET lp == h.lastPlay[1]
    IN /\ Count(lp.trace, "api.position") = 1
       /\ Count(lp.trace, "start_video") = 1
       /\ IndexOf(lp.trace, "start_video") < IndexOf(lp.trace, "api.position")
       /\ lp.read # None
       /\ lp.writes <= 1
       /\ lp.writes = 1 => lp.written = lp.read
       /\ lp.writes = 0 =>
            (pc = "seek_wait" /\ pending # None /\ pending[1].ofPlay
             /\ Some(pending[1].ms) = lp.read)

C13_Witness ==
  /\ app = "gui" /\ SupportsPosition(apiKind) /\ player.kind = "mpv"
  /\ h.lastPlay # None /\ h.lastPlay[1].writes = 1
  /\ h.lastPlay[1].read = Some(2000) /\ h.lastPlay[1].written = Some(2000)
  /\ player.time = 2000 /\ h.handlerRuns > 0

\* C14 (as claimed): when the source does not support position queries, the
\* offset applied after a track change is the time elapsed until the player
\* has started playing (within a millisecond), whether the source is
\* playing or paused.
C14_EstimatedOffsetApplied ==
  (Bootstrapping /\ ~SupportsPosition(apiKind) /\ h.lastPlay # None
   /\ pc \notin {"seek_wait", "wait_pos"}) =>
    LET lp == h.lastPlay[1]
    IN /\ lp.writes = 1
       /\ lp.elapsed # None
       /\ lp.written[1] * 1000 <= lp.elapsed[1]
       /\ lp.elapsed[1] < (lp.written[1] + 1) * 1000

\* C15: NotImplementedError from api.position never leaves the code that
\* handles a track change, and a track change makes at most one position
\* write of its own; where the Qt program has no position to read, that
\* write is the one of the except branch.
C15_UnsupportedNotPropagated ==
  Bootstrapping =>
    /\ "NotImplementedError" \notin errors
    /\ h.lastPlay # None =>
         /\ h.lastPlay[1].writes <= 1
         /\ (app = "gui" /\ ~SupportsPosition(apiKind)) =>
              /\ h.lastPlay[1].read = None
              /\ h.lastPlay[1].writes = 1 => h.lastPlay[1].written = Some(0)
              /\ h.lastPlay[1].writes = 0 => pc = "seek_wait"

C15_Witness ==
  /\ app = "gui" /\ ~SupportsPosition(apiKind)
  /\ h.lastPlay # None /\ h.lastPlay[1].read = None
  /\ h.lastPlay[1].writes = 1 /\ h.startCalls > 1
  /\ pc = "idle" /\ errors = {}

\* C16 (as claimed): every position value written to the player is
\* non-negative.
C16_WritesNonNegative ==
  h.lastWrite # None => h.lastWrite[1] >= 0

\* The seeks counted so far are the position writes asked for, less the one
\* that is being held.
SeeksHeldAndApplied ==
  /\ h.seeks = h.requests - (IF pc = "seek_wait" THEN 1 ELSE 0)
  /\ pc = "seek_wait" => pending # None

\* C17 (as claimed): MpvPlayer never issues a native seek while 'seekable'
\* is false; a position write made earlier is held until mpv is seekable and
\* is then applied once with exactly the requested value.
C17_SeekHeldThenRequestedValue ==
  app = "player" =>
    /\ SeeksHeldAndApplied
    /\ h.lastSeek # None =>
         /\ h.lastSeek[1].seekable
         /\ h.lastSeek[1].applied = h.lastSeek[1].requested

\* C17 (amended): as above, the value applied being the requested one in
\* spotivids and the requested one rounded to hundredths of a second in
\* vidify.
C17_SeekHeldThenApplied ==
  app = "player" =>
    /\ SeeksHeldAndApplied
    /\ h.lastSeek # None =>
         /\ h.lastSeek[1].seekable
         /\ h.lastSeek[1].applied =
              IF player.kind = "vidify"
              THEN RoundCentis(h.lastSeek[1].requested)
              ELSE h.lastSeek[1].requested
         /\ h.lastSeek[1].applied - h.lastSeek[1].requested \in -5..5

C17_Witness ==
  /\ app = "player" /\ player.kind = "vidify"
  /\ h.lastSeek # None /\ h.lastSeek[1].held
  /\ h.lastSeek[1].requested = 1234 /\ h.lastSeek[1].applied = 1230
  /\ h.seeks = 1 /\ h.requests = 1 /\ player.time = 1230

\* C19 (as claimed): MpvPlayer.position is in milliseconds both ways: read
\* after the position of a seekable, paused video was set to ms, it is ms;
\* read when mpv has no playback time, it is 0.
C19_PositionInMilliseconds ==
  (app = "player" /\ h.lastRead # None) =>
    /\ h.lastRead[1].playback_time = None =>
         RatEq(h.lastRead[1].value, Rat(0, 1))
    /\ h.lastRead[1].settled # None =>
         RatEq(h.lastRead[1].value, Rat(h.lastRead[1].settled[1], 1))

\* C20: format_name(artist, title) is the title alone when the artist is
\* None or the empty string, and 'artist - title' for every other artist.
C20_FormatName ==
  (app = "legacy" /\ h.named # None) =>
    LET artist == h.named[1].artist
        title == h.named[1].title
    IN /\ (artist = None \/ artist = Some("")) => name = title
       /\ (artist # None /\ artist # Some("")) =>
            name = artist[1] \o " - " \o title
       /\ h.named[1] = [artist |-> Some("A"), title |-> "C"] => name = "A - C"
       /\ h.named[1] = [artist |-> None, title |-> "C"] => name = "C"
       /\ h.named[1] = [artist |-> Some(""), title |-> "A - B"] =>
            name = "A - B"

C20_Witness ==
  /\ app = "legacy" /\ pc = "waiting"
  /\ h.named = Some([artist |-> Some(""), title |-> "A - B"])
  /\ name = "A - B" /\ h.startCalls > 1

\* C26 (as claimed): in main.py, waiting for the next song does not grow the
\* call stack: no step adds an unfinished invocation of main.
C26_StackDoesNotGrow ==
  [][app = "legacy" => depth' <= depth]_vars

\* C27 (as claimed): the offset passed to vlc.play_video is the whole time
\* elapsed since start_time, in milliseconds, also for one second or more.
C27_OffsetIsElapsed ==
  (app = "legacy" /\ h.legacyPlay # None) =>
    /\ h.legacyPlay[1].offset * 1000 <= h.legacyPlay[1].elapsed
    /\ h.legacyPlay[1].elapsed < (h.legacyPlay[1].offset + 1) * 1000

\* C28: youtube.download_video is called at most once per formatted name; a
\* name already in videos is played from its stored filename; the entry
\* stored for a name is the one of its download and never changes.
C28_DownloadedOncePerName ==
  app = "legacy" =>
    /\ \A i, j \in 1..Len(h.downloadLog) :
         h.downloadLog[i].name = h.downloadLog[j].name => i = j
    /\ DOMAIN videos = {h.downloadLog[i].name : i \in 1..Len(h.downloadLog)}
    /\ \A i \in 1..Len(h.downloadLog) :
         videos[h.downloadLog[i].name] = h.downloadLog[i].filename
    /\ h.legacyPlay # None =>
         /\ h.legacyPlay[1].name \in DOMAIN videos
         /\ h.legacyPlay[1].filename = videos[h.legacyPlay[1].name]

C28_Witness ==
  /\ app = "legacy" /\ h.legacyPlay # None /\ h.legacyPlay[1].cached
  /\ h.startCalls = 3 /\ Len(h.downloadLog) = 2
  /\ h.legacyPlay[1].filename = h.downloadLog[1].filename

\* C29 (as claimed): tracks that differ in artist or title have different
\* formatted names, so once the wait loop of main.py has read a track other
\* than the one being played it leaves the loop.
C29_NameDetectsEveryChange ==
  (app = "legacy" /\ pc = "waiting") =>
    /\ args = h.named
    /\ \A t \in Tracks :
         Some(t) # h.named => format_name(t.artist, t.title) # name

\* C22 (as claimed): when the track read from the source has changed and
\* stays the same from then on, a video for that track is eventually
\* started, and it is the track read when the change was detected.
C22_ChangedTrackEventuallyPlayed ==
  \A t \in Tracks :
    <>[](app = "legacy" /\ args = Some(t)) => <>(h.named = Some(t))

\* C23 (as claimed): the wait for the player always ends: the loop
\* `while player.position == 0` is left and spotify.wait() is reached, and a
\* position write that waits for mpv returns.
C23_PlayerWaitEnds ==
  /\ (pc = "wait_pos") ~> (pc = "spotify_wait")
  /\ (pc = "seek_wait") ~> (pc = "spotify_wait")

C25_HandlersChangeOnlyTheirPart ==
  [][app = "gui" =>
       /\ ChangeVideoStatus =>
            (player'.time = player.time /\ player'.media = player.media
             /\ player'.seekable = player.seekable)
       /\ (ChangeVideoPosition
           \/ (GuiSeekDone /\ ~pending[1].ofPlay)) =>
            (PlayerPause(player') = PlayerPause(player)
             /\ player'.media = player.media
             /\ player'.seekable = player.seekable)
       /\ player' # player =>
            (WaitConnected \/ PlayVideoSlot \/ ChangeVideoStatus
             \/ ChangeVideoPosition \/ GuiSeekDone \/ MpvBecomesSeekable)
  ]_vars

C25_Witness ==
  /\ app = "gui" /\ player.kind = "vlc" /\ pc = "idle"
  /\ h.lastStatus # None /\ h.lastStatus[1].native > 0
  /\ h.lastWrite = Some(2000) /\ player.time = 2000
  /\ h.lastPlay # None /\ h.lastPlay[1].written = Some(0)
  /\ h.handlerRuns = 2

C30_ConfigUnchanged ==
  app = "vidify_init" => Some(config.mpv_properties) = h.configBefore

\* C31 (as claimed): get_ignored(path, filenames) returns exactly the
\* entries of filenames that name an ignored file, and copytree copies none
\* of them into the build directory.
C31_IgnoredFilesNotCopied ==
  (app = "build" /\ build.call # None) =>
    LET c == build.call[1]
        IsIgnored(f) == f \in {".git", ".venv", "target"}
    IN /\ c.ret = SelectSeq(c.filenames, IsIgnored)
       /\ \A f \in {".git", ".venv", "target"} :
            path_join(c.path, f) \notin build.copied

====
